---- MODULE Spec2Model ----
(***************************************************************************)
(* Rummy (rummy_final.py): the meld validators is_valid_book, is_valid_run *)
(* and is_valid_run_joker, the helpers sort_sequence and push_joker_toend, *)
(* the shared RANK_VALUE table and Player.close_game.                      *)
(*                                                                         *)
(* A card is a record [rank, suit, isjoker].  A Python list is a sequence; *)
(* Python index i is index i+1 here.  The validators reorder the list they *)
(* are given in place and write RANK_VALUE["A"], so every function that    *)
(* does so returns the list and the table next to its verdict.             *)
(***************************************************************************)
EXTENDS Integers, Sequences, FiniteSets, TLC

(* ---------------- bounds of the model ---------------- *)
\* ranks of the model: the LowRanks lowest of RANK and the HighRanks highest
LowRanks == 3
HighRanks == 2
\* suits of the model: the first NumSuits of SUIT
NumSuits == 2
\* validator calls made in a row on one list
MaxCalls == 2
\* hands: the largest rank step between neighbouring cards of a slice as dealt
MaxStep == 1
\* the game: commands the players type
MaxCommands == 5

(* ---------------- constants of the program ---------------- *)
SUIT == <<"Hearts", "Clubs", "Spades", "Diamonds">>
RANK == <<"A", "2", "3", "4", "5", "6", "7", "8", "9", "T", "J", "Q", "K">>

\* main(): Deck(2), the deck is made of two packs
PACKS == 2

\* RANK_VALUE as the module sets it when it is loaded
RANK_VALUE_INIT ==
  [r \in {RANK[i] : i \in 1..13} |-> CHOOSE i \in 1..13 : RANK[i] = r]

\* Card.__init__ followed by the flag Deck.set_joker gives the card
Card(rank, suit, isjoker) == [rank |-> rank, suit |-> suit, isjoker |-> isjoker]

VARIABLES
  sequence,     \* the list object handed to the validators (reordered in place)
  RANK_VALUE,   \* the shared rank table; only RANK_VALUE["A"] is ever written
  pc,           \* "idle" | "book" (in is_valid_book's rotation loop) |
                \* "close" (in close_game's second loop) | "done" |
                \* "play" (in Player.play's loop) | "over" (Game.play has returned)
  calls,        \* log of the validator calls made on `sequence`
  stash,        \* Player.stash
  set_array,    \* close_game's four slices
  slice,        \* close_game: index of the slice being checked (0 outside the loop)
  closed,       \* close_game's return value: "none" | "true" | "false"
  players,      \* Game.players: the stash of every player of the game
  pile,         \* Game.pile, the top card first
  cards,        \* Deck.cards, the top card first
  turn,         \* Game.play's i, counted from 1: the player whose turn it is
  commands      \* the number of commands the players have typed

game_vars == <<players, pile, cards, turn, commands>>
vars == <<sequence, RANK_VALUE, pc, calls, stash, set_array, slice, closed, game_vars>>

(* ---------------- lists and tables ---------------- *)
\* The loops of the program are recursive functions of the values they work
\* on: lists of cards, rank tables, indices and counters.
Ranks13 == {RANK[i] : i \in 1..13}
Suits4 == {SUIT[i] : i \in 1..4}
Lists == Seq([rank : Ranks13, suit : Suits4, isjoker : BOOLEAN])
Tables == [Ranks13 -> 1..14]

(* ---------------- sort_sequence ---------------- *)
Swap(seq, i) == [seq EXCEPT ![i] = seq[i + 1], ![i + 1] = seq[i]]

\* one execution of the for loop of sort_sequence, from index i on;
\* the result carries is_sort_complete
SortPass[seq \in Lists, rv \in Tables, i \in Nat, complete \in BOOLEAN] ==
  IF i > Len(seq) - 1 THEN [seq |-> seq, complete |-> complete]
  ELSE IF rv[seq[i].rank] > rv[seq[i + 1].rank]
       THEN SortPass[Swap(seq, i), rv, i + 1, FALSE]
       ELSE SortPass[seq, rv, i + 1, complete]

\* the while loop of sort_sequence: passes until one leaves the list as it is
SortLoop[seq \in Lists, rv \in Tables] ==
  IF SortPass[seq, rv, 1, TRUE].complete THEN SortPass[seq, rv, 1, TRUE].seq
  ELSE SortLoop[SortPass[seq, rv, 1, TRUE].seq, rv]

sort_sequence(seq, rv) == SortLoop[seq, rv]

(* ---------------- push_joker_toend ---------------- *)
RemoveAt(seq, i) == SubSeq(seq, 1, i - 1) \o SubSeq(seq, i + 1, Len(seq))

\* the for loop of push_joker_toend: the iterator stands at index idx of the
\* list the loop body is removing cards from
PushLoop[seq \in Lists, idx \in Nat, joker_list \in Lists] ==
  IF idx > Len(seq) THEN seq \o joker_list
  ELSE IF seq[idx].isjoker
       THEN PushLoop[RemoveAt(seq, idx), idx + 1, Append(joker_list, seq[idx])]
       ELSE PushLoop[seq, idx + 1, joker_list]

push_joker_toend(seq, rv) == PushLoop[sort_sequence(seq, rv), 1, <<>>]

(* ---------------- is_valid_run ---------------- *)
HighCards == {"Q", "J", "K"}

\* RankComparison weakened: the ranks only have to ascend
RankComparison_Ascending(seq, rv) ==
  \A i \in 2..Len(seq) : rv[seq[i].rank] > rv[seq[i - 1].rank]

\* "Rank Comparison": every card is one above its predecessor
RankComparison(seq, rv) ==
  \A i \in 2..Len(seq) : rv[seq[i].rank] = rv[seq[i - 1].rank] + 1

\* is_valid_run without line 434: RANK_VALUE["A"] is not reset on entry
is_valid_run_NoReset(seq0, rv0) ==
  LET s1 == sort_sequence(seq0, rv0)
  IN IF \E i \in 1..Len(s1) : s1[i].suit # s1[1].suit
     THEN [ret |-> FALSE, seq |-> s1, rv |-> rv0]
     ELSE LET high == s1[1].rank = "A" /\ s1[2].rank \in HighCards
              rv2 == IF high THEN [rv0 EXCEPT !["A"] = 14] ELSE rv0
              s2 == IF high THEN sort_sequence(s1, rv2) ELSE s1
          IN [ret |-> RankComparison(s2, rv2), seq |-> s2, rv |-> rv2]

is_valid_run(seq0, rv0) ==
  LET rv1 == [rv0 EXCEPT !["A"] = 1]
      s1 == sort_sequence(seq0, rv1)
  IN IF \E i \in 1..Len(s1) : s1[i].suit # s1[1].suit
     THEN [ret |-> FALSE, seq |-> s1, rv |-> rv1]
     ELSE LET high == s1[1].rank = "A" /\ s1[2].rank \in HighCards
              rv2 == IF high THEN [rv1 EXCEPT !["A"] = 14] ELSE rv1
              s2 == IF high THEN sort_sequence(s1, rv2) ELSE s1
          IN [ret |-> RankComparison(s2, rv2), seq |-> s2, rv |-> rv2]

(* ---------------- is_valid_run_joker ---------------- *)
\* the while loop of is_valid_run_joker for the card at index i
\* (ok: the loop is left by its condition or by break, not by return False)
JokerWhile[seq \in Lists, rv \in Tables, i \in Nat, rank_inc \in Nat, joker_count \in Nat] ==
  IF rv[seq[i].rank] = rv[seq[i - 1].rank] + rank_inc
  THEN [ok |-> TRUE, rank_inc |-> rank_inc, joker_count |-> joker_count]
  ELSE IF joker_count > 0
       THEN JokerWhile[seq, rv, i, rank_inc + 1, joker_count - 1]
       ELSE [ok |-> rv[seq[i].rank] = rv[seq[i - 1].rank] + 1,
             rank_inc |-> rank_inc, joker_count |-> joker_count]

\* the for loop over range(1, len(sequence))
JokerWalk[seq \in Lists, rv \in Tables, i \in Nat, rank_inc \in Nat, joker_count \in Nat] ==
  IF i > Len(seq) THEN TRUE
  ELSE IF seq[i].isjoker THEN JokerWalk[seq, rv, i + 1, rank_inc, joker_count]
  ELSE LET w == JokerWhile[seq, rv, i, rank_inc, joker_count]
       IN IF w.ok THEN JokerWalk[seq, rv, i + 1, w.rank_inc, w.joker_count]
          ELSE FALSE

JokerCount(seq) == Cardinality({i \in 1..Len(seq) : seq[i].isjoker})

is_valid_run_joker(seq0, rv0) ==
  LET rv1 == [rv0 EXCEPT !["A"] = 1]
      s1 == push_joker_toend(sort_sequence(seq0, rv1), rv1)
      joker_count == JokerCount(s1)
  IN IF \E i \in 1..Len(s1) : ~s1[i].isjoker /\ s1[i].suit # s1[1].suit
     THEN [ret |-> FALSE, seq |-> s1, rv |-> rv1]
     ELSE LET high == s1[1].rank = "A" /\ s1[2].rank \in HighCards
              rv2 == IF high THEN [rv1 EXCEPT !["A"] = 14] ELSE rv1
              s2 == IF high
                    THEN push_joker_toend(sort_sequence(s1, rv2), rv2)
                    ELSE s1
          IN [ret |-> JokerWalk[s2, rv2, 2, 1, joker_count], seq |-> s2, rv |-> rv2]

(* ---------------- is_valid_book ---------------- *)
\* one iteration of "while(sequence[0].isjoker == True)"
BookRotation(seq) == Append(Tail(seq), Head(seq))

\* BookCompare without the isjoker test: the jokers are compared too
BookCompare_JokersCompared(seq) ==
  \A i \in 1..Len(seq) : seq[i].rank = seq[1].rank

\* the for loop that compares every card that is no joker with the 0th card
BookCompare(seq) ==
  \A i \in 1..Len(seq) : seq[i].isjoker \/ seq[i].rank = seq[1].rank

\* the rotation loop run to its end; it has one only when some card is no joker
BookRotated[seq \in Lists] ==
  IF seq[1].isjoker THEN BookRotated[BookRotation(seq)] ELSE seq

\* is_valid_book's verdict on a list that holds a card that is no joker
is_valid_book(seq) == BookCompare(BookRotated[seq])

(* ---------------- the inputs ---------------- *)
ModelRanks == {RANK[i] : i \in (1..LowRanks) \cup ((14 - HighRanks)..13)}
ModelSuits == {SUIT[i] : i \in 1..NumSuits}
NoJoker == "none"

\* the cards in play once Deck.set_joker has drawn a card of rank joker
\* (NoJoker: main() as it stands, with set_joker commented out)
Cards(joker) == {Card(r, s, r = joker) : r \in ModelRanks, s \in ModelSuits}

\* Deck.__init__ puts PACKS copies of every card in the deck
Copies(seq, c) == Cardinality({i \in 1..Len(seq) : seq[i].rank = c.rank /\ seq[i].suit = c.suit})
FromDeck(seq) == \A i \in 1..Len(seq) : Copies(seq, seq[i]) <= PACKS

Melds(joker) == {m \in UNION {[1..n -> Cards(joker)] : n \in {3, 4}} : FromDeck(m)}

\* RANK_VALUE as a validator call can have left it: "A" at 1 or at 14
RankTables == {[RANK_VALUE_INIT EXCEPT !["A"] = a] : a \in {1, 14}}

(* ---------------- validator calls on one list ---------------- *)
\* no game is being played: the validators and close_game are called directly
NoGame ==
  players = <<>> /\ pile = <<>> /\ cards = <<>> /\ turn = 0 /\ commands = 0

Call(op, ret, done) ==
  [op |-> op, arg |-> sequence, ace |-> RANK_VALUE["A"], ret |-> ret, done |-> done]

CanCall == pc = "idle" /\ Len(sequence) \in {3, 4} /\ Len(calls) < MaxCalls

CallRun ==
  /\ CanCall
  /\ LET r == is_valid_run(sequence, RANK_VALUE)
     IN /\ sequence' = r.seq
        /\ RANK_VALUE' = r.rv
        /\ calls' = Append(calls, Call("is_valid_run", r.ret, TRUE))
  /\ UNCHANGED <<pc, stash, set_array, slice, closed>>
  /\ UNCHANGED game_vars

CallRunJoker ==
  /\ CanCall
  /\ LET r == is_valid_run_joker(sequence, RANK_VALUE)
     IN /\ sequence' = r.seq
        /\ RANK_VALUE' = r.rv
        /\ calls' = Append(calls, Call("is_valid_run_joker", r.ret, TRUE))
  /\ UNCHANGED <<pc, stash, set_array, slice, closed>>
  /\ UNCHANGED game_vars

CallPush ==
  /\ CanCall
  /\ sequence' = push_joker_toend(sequence, RANK_VALUE)
  /\ calls' = Append(calls, Call("push_joker_toend", TRUE, TRUE))
  /\ UNCHANGED <<RANK_VALUE, pc, stash, set_array, slice, closed>>
  /\ UNCHANGED game_vars

\* is_valid_book is entered: its rotation loop runs one iteration per step
CallBook ==
  /\ CanCall
  /\ pc' = "book"
  /\ calls' = Append(calls, Call("is_valid_book", FALSE, FALSE))
  /\ UNCHANGED <<sequence, RANK_VALUE, stash, set_array, slice, closed>>
  /\ UNCHANGED game_vars

BookRotate ==
  /\ pc = "book"
  /\ sequence[1].isjoker
  /\ sequence' = BookRotation(sequence)
  /\ UNCHANGED <<RANK_VALUE, pc, calls, stash, set_array, slice, closed>>
  /\ UNCHANGED game_vars

BookReturn ==
  /\ pc = "book"
  /\ slice = 0
  /\ ~sequence[1].isjoker
  /\ pc' = "idle"
  /\ calls' = [calls EXCEPT ![Len(calls)].ret = BookCompare(sequence),
                            ![Len(calls)].done = TRUE]
  /\ UNCHANGED <<sequence, RANK_VALUE, stash, set_array, slice, closed>>
  /\ UNCHANGED game_vars

Init ==
  /\ \E joker \in ModelRanks \cup {NoJoker} : sequence \in Melds(joker)
  /\ RANK_VALUE \in RankTables
  /\ pc = "idle"
  /\ calls = <<>>
  /\ stash = <<>>
  /\ set_array = <<>>
  /\ slice = 0
  /\ closed = "none"
  /\ NoGame

Next == CallRun \/ CallRunJoker \/ CallPush \/ CallBook \/ BookRotate \/ BookReturn

Spec == Init /\ [][Next]_vars

\* is_valid_book alone, from the table as the module sets it (is_valid_book
\* never reads it).  The program is one thread that runs until it returns: a
\* step that can be taken is taken.
InitBook == Init /\ RANK_VALUE = RANK_VALUE_INIT
NextBook == CallBook \/ BookRotate \/ BookReturn
FairBook == InitBook /\ [][NextBook]_vars /\ WF_vars(NextBook)

(* ---------------- Player.close_game ---------------- *)
\* a slice as the player has arranged it: n cards from rank RANK[b] on, d ranks
\* apart (past the King the ranks start again at the Ace), of one suit, or
\* of the suits of SUIT in turn ("mixed")
SliceRank(b, d, i) == RANK[((b + d * (i - 1) - 1) % 13) + 1]
SliceSuit(p, i) == IF p = "mixed" THEN SUIT[((i - 1) % NumSuits) + 1] ELSE p
HandSlice(n, b, d, p, joker) ==
  [i \in 1..n |-> Card(SliceRank(b, d, i), SliceSuit(p, i), SliceRank(b, d, i) = joker)]

HandStarts == {1, 14 - HighRanks}
HandSlices(n, joker) ==
  {HandSlice(n, b, d, p, joker) :
     b \in HandStarts, d \in 0..MaxStep, p \in ModelSuits \cup {"mixed"}}

\* the 13-card hands of the model
Hands(joker) ==
  {h \in {s1 \o s2 \o s3 \o s4 : s1 \in HandSlices(3, joker), s2 \in HandSlices(3, joker),
                                 s3 \in HandSlices(3, joker), s4 \in HandSlices(4, joker)} :
     FromDeck(h)}

\* set_array = [self.stash[:3], self.stash[3:6], self.stash[6:9], self.stash[9:]]
Slices(hand) ==
  <<SubSeq(hand, 1, 3), SubSeq(hand, 4, 6), SubSeq(hand, 7, 9), SubSeq(hand, 10, Len(hand))>>

\* the first loop of close_game: is_valid_run on every slice, counting the runs
CloseCount[arr \in Seq(Lists), rv \in Tables, k \in Nat, count \in Nat] ==
  IF k > Len(arr) THEN [arr |-> arr, rv |-> rv, count |-> count]
  ELSE LET r == is_valid_run(arr[k], rv)
       IN CloseCount[[arr EXCEPT ![k] = r.seq], r.rv, k + 1,
                     IF r.ret THEN count + 1 ELSE count]

\* close_game up to the end of its first loop
CloseGame ==
  /\ pc = "idle"
  /\ Len(stash) = 13
  /\ LET c == CloseCount[Slices(stash), RANK_VALUE, 1, 0]
     IN /\ set_array' = c.arr
        /\ RANK_VALUE' = c.rv
        /\ IF c.count = 0
           THEN pc' = "done" /\ closed' = "false" /\ slice' = 0
           ELSE pc' = "close" /\ closed' = closed /\ slice' = 1
  /\ UNCHANGED <<sequence, calls, stash>>
  /\ UNCHANGED game_vars

\* the slice at hand has passed one validator: on to the next slice, or return True
SliceAccepted ==
  IF slice = Len(set_array)
  THEN pc' = "done" /\ closed' = "true" /\ slice' = 0
  ELSE pc' = "close" /\ closed' = closed /\ slice' = slice + 1

\* second loop, one slice: is_valid_run(s), and is_valid_book(s) is entered
\* when it fails
CloseSlice ==
  /\ pc = "close"
  /\ LET r == is_valid_run(set_array[slice], RANK_VALUE)
     IN /\ set_array' = [set_array EXCEPT ![slice] = r.seq]
        /\ RANK_VALUE' = r.rv
        /\ IF r.ret
           THEN SliceAccepted /\ sequence' = sequence
           ELSE pc' = "book" /\ sequence' = r.seq /\ UNCHANGED <<slice, closed>>
  /\ UNCHANGED <<calls, stash>>
  /\ UNCHANGED game_vars

\* is_valid_book(s) returns to close_game, which calls is_valid_run_joker(s)
\* when the book check has failed
CloseBookReturn ==
  /\ pc = "book"
  /\ slice > 0
  /\ ~sequence[1].isjoker
  /\ IF BookCompare(sequence)
     THEN /\ set_array' = [set_array EXCEPT ![slice] = sequence]
          /\ RANK_VALUE' = RANK_VALUE
          /\ SliceAccepted
     ELSE LET r == is_valid_run_joker(sequence, RANK_VALUE)
          IN /\ set_array' = [set_array EXCEPT ![slice] = r.seq]
             /\ RANK_VALUE' = r.rv
             /\ IF r.ret THEN SliceAccepted
                ELSE pc' = "done" /\ closed' = "false" /\ slice' = 0
  /\ sequence' = <<>>
  /\ UNCHANGED <<calls, stash>>
  /\ UNCHANGED game_vars

InitClose ==
  /\ \E joker \in ModelRanks \cup {NoJoker} : stash \in Hands(joker)
  /\ RANK_VALUE = RANK_VALUE_INIT
  /\ sequence = <<>>
  /\ pc = "idle"
  /\ calls = <<>>
  /\ set_array = <<>>
  /\ slice = 0
  /\ closed = "none"
  /\ NoGame

NextClose == CloseGame \/ CloseSlice \/ BookRotate \/ CloseBookReturn

SpecClose == InitClose /\ [][NextClose]_vars

\* the program is one thread that runs until it returns: a step that can be
\* taken is taken
FairClose == SpecClose /\ WF_vars(NextClose)

(* ---------------- the game: main(), Game.play, Player.play ---------------- *)
\* main(): Game(2, deck), a game of two players
PLAYERS == 2

\* Deck.__init__: packs times, every suit of SUIT, every rank of RANK
Deck(packs) ==
  [k \in 1..(packs * 52) |->
     Card(RANK[((k - 1) % 13) + 1], SUIT[(((k - 1) \div 13) % 4) + 1], FALSE)]

\* Deck.shuffle: two of the orders random.shuffle can leave the deck in, the
\* order it had and the order that deals Hearts A..K to the first player and
\* Clubs A..K to the second
Riffled(deck) ==
  [k \in 1..Len(deck) |->
     IF k > 26 THEN deck[k]
     ELSE IF k % 2 = 1 THEN deck[(k + 1) \div 2] ELSE deck[13 + (k \div 2)]]
Shuffles == {Deck(PACKS), Riffled(Deck(PACKS))}

\* what Game.draw_pile returns when the pile is empty
None == [rank |-> "None", suit |-> "None", isjoker |-> FALSE]

\* a line typed at a card prompt: rank and suit of a card (the letter typed
\* for the suit is its first letter, and the four first letters differ), the
\* empty line, or two characters that name no card
CodeOf(card) == [rank |-> card.rank, suit |-> card.suit]
EmptyLine == [rank |-> "", suit |-> ""]
NoCard == [rank |-> "?", suit |-> "?"]

\* get_object: the index of the first card of arr the line names, 0 for None
get_object(arr, str_card) ==
  IF \E k \in 1..Len(arr) : CodeOf(arr[k]) = str_card
  THEN CHOOSE k \in 1..Len(arr) :
         /\ CodeOf(arr[k]) = str_card
         /\ \A j \in 1..(k - 1) : CodeOf(arr[j]) # str_card
  ELSE 0

add_pile(pl, card) == <<card>> \o pl
draw_pile(pl) ==
  IF Len(pl) # 0 THEN [card |-> Head(pl), pile |-> Tail(pl)]
  ELSE [card |-> None, pile |-> pl]

\* Player.drop_card: its return value, the stash and the pile it leaves
drop_card(hand, pl, str_card) ==
  LET k == get_object(hand, str_card)
  IN IF k = 0 THEN [ok |-> FALSE, stash |-> hand, pile |-> pl]
     ELSE [ok |-> TRUE, stash |-> RemoveAt(hand, k), pile |-> add_pile(pl, hand[k])]

\* the second loop of close_game in a game without jokers (main() leaves
\* set_joker commented out), where is_valid_book always returns
CloseCheck[arr \in Seq(Lists), rv \in Tables, k \in Nat] ==
  IF k > Len(arr) THEN [ret |-> TRUE, rv |-> rv]
  ELSE LET r == is_valid_run(arr[k], rv)
       IN IF r.ret THEN CloseCheck[arr, r.rv, k + 1]
          ELSE IF is_valid_book(r.seq) THEN CloseCheck[arr, r.rv, k + 1]
          ELSE LET j == is_valid_run_joker(BookRotated[r.seq], r.rv)
               IN IF j.ret THEN CloseCheck[arr, j.rv, k + 1]
                  ELSE [ret |-> FALSE, rv |-> j.rv]

\* Player.close_game: its return value and the table it leaves
close_game(hand, rv) ==
  LET c == CloseCount[Slices(hand), rv, 1, 0]
  IN IF c.count = 0 THEN [ret |-> FALSE, rv |-> c.rv]
     ELSE CloseCheck[c.arr, c.rv, 1]

\* the stash of the player whose turn it is
Stash == players[turn]

\* the lines the player types at a card prompt
Lines == {CodeOf(Stash[1]), CodeOf(Stash[Len(Stash)]), EmptyLine, NoCard}

\* Player.play is at its prompt and the player types a command
Typed ==
  /\ pc = "play"
  /\ commands < MaxCommands
  /\ commands' = commands + 1
  /\ UNCHANGED <<sequence, calls, stash, set_array, slice, closed>>

\* list.insert(location, card), location counted from 1
InsertAt(seq, k, card) == SubSeq(seq, 1, k - 1) \o <<card>> \o SubSeq(seq, k, Len(seq))

\* (M)ove: the stash the command leaves
MoveCard(hand, move_what, move_where) ==
  LET what == get_object(hand, move_what)
      where == get_object(hand, move_where)
  IN IF what = 0 THEN hand
     ELSE IF move_where # EmptyLine /\ where = 0 THEN hand
     ELSE IF move_where # EmptyLine
          THEN InsertAt(RemoveAt(hand, what),
                        IF where > what THEN where - 1 ELSE where, hand[what])
          ELSE Append(RemoveAt(hand, what), hand[what])

Move ==
  /\ Typed
  /\ \E move_what \in Lines, move_where \in Lines :
       players' = [players EXCEPT ![turn] = MoveCard(Stash, move_what, move_where)]
  /\ UNCHANGED <<RANK_VALUE, pc, pile, cards, turn>>

\* "if len(self.stash) < 14" without the bound: a card may always be drawn
CanDraw_Always(hand) == Len(hand) >= 0

\* (P)ick and (T)ake: "if len(self.stash) < 14"
CanDraw(hand) == Len(hand) < 14

\* (P)ick from pile
Pick ==
  /\ Typed
  /\ IF CanDraw(Stash)
     THEN /\ players' = [players EXCEPT ![turn] = Append(Stash, draw_pile(pile).card)]
          /\ pile' = draw_pile(pile).pile
     ELSE UNCHANGED <<players, pile>>
  /\ UNCHANGED <<RANK_VALUE, pc, cards, turn>>

\* (T)ake from deck; Deck.draw_card raises IndexError on an empty deck, which
\* ends the program
Take ==
  /\ Typed
  /\ IF ~CanDraw(Stash) THEN UNCHANGED <<players, cards, pc>>
     ELSE IF Len(cards) = 0 THEN pc' = "error" /\ UNCHANGED <<players, cards>>
     ELSE /\ players' = [players EXCEPT ![turn] = Append(Stash, Head(cards))]
          /\ cards' = Tail(cards)
          /\ pc' = pc
  /\ UNCHANGED <<RANK_VALUE, pile, turn>>

\* Game.play: "i += 1; if i == len(self.players): i = 0"
NextPlayer == IF turn = Len(players) THEN 1 ELSE turn + 1

\* (D)rop: a card dropped ends the turn
Drop ==
  /\ Typed
  /\ \E drop \in Lines :
       LET d == drop_card(Stash, pile, drop)
       IN IF Len(Stash) = 14 /\ d.ok
          THEN /\ players' = [players EXCEPT ![turn] = d.stash]
               /\ pile' = d.pile
               /\ turn' = NextPlayer
          ELSE UNCHANGED <<players, pile, turn>>
  /\ UNCHANGED <<RANK_VALUE, pc, cards>>

\* (S)ort
Sort ==
  /\ Typed
  /\ players' = [players EXCEPT ![turn] = sort_sequence(Stash, RANK_VALUE)]
  /\ UNCHANGED <<RANK_VALUE, pc, pile, cards, turn>>

\* (C)lose: a card is dropped and close_game decides; when it returns false
\* the card comes back from the pile
Close ==
  /\ Typed
  /\ \E drop \in Lines :
       LET d == drop_card(Stash, pile, drop)
           c == close_game(d.stash, RANK_VALUE)
       IN IF Len(Stash) = 14 /\ d.ok
          THEN /\ RANK_VALUE' = c.rv
               /\ IF c.ret
                  THEN /\ players' = [players EXCEPT ![turn] = d.stash]
                       /\ pile' = d.pile
                       /\ pc' = "over"
                  ELSE /\ players' = [players EXCEPT ![turn] =
                                        Append(d.stash, draw_pile(d.pile).card)]
                       /\ pile' = draw_pile(d.pile).pile
                       /\ pc' = pc
          ELSE UNCHANGED <<RANK_VALUE, players, pile, pc>>
  /\ UNCHANGED <<cards, turn>>

\* (R)ules, and every line that is no command: the prompt comes again
Rules ==
  /\ Typed
  /\ UNCHANGED <<RANK_VALUE, pc, players, pile, cards, turn>>

\* main(): the deck is shuffled, 13 cards are dealt to the players in turn,
\* the next card starts the pile and the first player is to play
InitGame ==
  /\ \E deck \in Shuffles :
       /\ players = [p \in 1..PLAYERS |-> [k \in 1..13 |-> deck[PLAYERS * (k - 1) + p]]]
       /\ pile = add_pile(<<>>, deck[13 * PLAYERS + 1])
       /\ cards = SubSeq(deck, 13 * PLAYERS + 2, Len(deck))
  /\ turn = 1
  /\ commands = 0
  /\ pc = "play"
  /\ RANK_VALUE = RANK_VALUE_INIT
  /\ sequence = <<>>
  /\ calls = <<>>
  /\ stash = <<>>
  /\ set_array = <<>>
  /\ slice = 0
  /\ closed = "none"

NextGame == Move \/ Pick \/ Take \/ Drop \/ Sort \/ Close \/ Rules

SpecGame == InitGame /\ [][NextGame]_vars

(* ======================================================================= *)
(* What the rules say of a meld, stated on the cards alone                 *)
(* ======================================================================= *)
Positions(seq) == 1..Len(seq)
NonJokerAt(seq) == {i \in Positions(seq) : ~seq[i].isjoker}
JokerAt(seq) == {i \in Positions(seq) : seq[i].isjoker}
HasJoker(seq) == JokerAt(seq) # {}
AllJokers(seq) == NonJokerAt(seq) = {}

\* the value of a rank with the Ace read as ace (1 or 14)
ValueAs(rank, ace) == IF rank = "A" THEN ace ELSE RANK_VALUE_INIT[rank]
ValuesAs(seq, I, ace) == {ValueAs(seq[i].rank, ace) : i \in I}
Max(S) == CHOOSE x \in S : \A y \in S : y <= x
Min(S) == CHOOSE x \in S : \A y \in S : x <= y

OneSuit(seq, I) == \A i, j \in I : seq[i].suit = seq[j].suit
OneRank(seq, I) == \A i, j \in I : seq[i].rank = seq[j].rank
DistinctRanks(seq, I) == \A i, j \in I : i # j => seq[i].rank # seq[j].rank

\* the cards at I are consecutive integers under one reading of the Ace
ConsecutiveAs(seq, I, ace) ==
  LET V == ValuesAs(seq, I, ace)
  IN Cardinality(V) = Cardinality(I) /\ (V # {} => Max(V) - Min(V) = Cardinality(V) - 1)

\* ranks missing between the lowest and the highest of the cards at I
MissingAs(seq, I, ace) ==
  LET V == ValuesAs(seq, I, ace)
  IN IF V = {} THEN 0 ELSE (Max(V) - Min(V) + 1) - Cardinality(V)

\* a same-suit run of consecutive ranks, Ace low or Ace high
NaturalRun(seq) ==
  /\ OneSuit(seq, Positions(seq))
  /\ \E ace \in {1, 14} : ConsecutiveAs(seq, Positions(seq), ace)

\* the cards that are no jokers are of one suit and of distinct ranks, and
\* the jokers are enough to fill the ranks missing between them
JokersFillGaps(seq) ==
  /\ OneSuit(seq, NonJokerAt(seq))
  /\ DistinctRanks(seq, NonJokerAt(seq))
  /\ \E ace \in {1, 14} :
       MissingAs(seq, NonJokerAt(seq), ace) <= Cardinality(JokerAt(seq))

SameCards(a, b) ==
  /\ Len(a) = Len(b)
  /\ \A i \in Positions(a) :
       Cardinality({j \in Positions(a) : a[j] = a[i]}) =
       Cardinality({j \in Positions(b) : b[j] = a[i]})

\* the completed calls of one validator
Returned(op) == {i \in DOMAIN calls : calls[i].op = op /\ calls[i].done}
LastCall == calls[Len(calls)]
WithRank(seq, i, rank) == [seq EXCEPT ![i].rank = rank]

(* ======================================================================= *)
(* Claims                                                                  *)
(* ======================================================================= *)

\* the verdicts of the three validators, each called on a slice as dealt; a
\* slice of jokers only counts as a book (the reading of C7)
PassesRun(seq) == is_valid_run(seq, RANK_VALUE_INIT).ret
PassesBook(seq) == AllJokers(seq) \/ is_valid_book(seq)
PassesRunJoker(seq) == is_valid_run_joker(seq, RANK_VALUE_INIT).ret
ClosingHand(hand) ==
  /\ \E k \in 1..4 : PassesRun(Slices(hand)[k])
  /\ \A k \in 1..4 : \/ PassesRun(Slices(hand)[k])
                      \/ PassesBook(Slices(hand)[k])
                      \/ PassesRunJoker(Slices(hand)[k])

\* close_game has returned what (a) and (b) of C1 say
VerdictAsClaimed == closed # "none" => (closed = "true" <=> ClosingHand(stash))

\* C1: for every 13-card hand close_game returns, and it returns true exactly
\* when (a) at least one of the four slices passes is_valid_run and (b) every
\* slice passes is_valid_run, is_valid_book or is_valid_run_joker; in every
\* other case it returns false.
C1_CloseGameReturnsClosingHand ==
  <>(closed # "none" /\ (closed = "true" <=> ClosingHand(stash)))

\* C2: when close_game returns true, at least one of the four slices is a
\* same-suit run of consecutive ranks that holds no joker-flagged card.
C2_ClosedHandHasPureRun ==
  closed = "true" =>
    \E k \in 1..4 : ~HasJoker(Slices(stash)[k]) /\ NaturalRun(Slices(stash)[k])

\* C3: on a meld without a joker, is_valid_run returns true exactly when the
\* cards are of one suit and their ranks are consecutive integers with the Ace
\* read as 1 or as 14 (one reading for the whole meld); a gap, a repeated rank
\* or a wrap-around such as K,A,2 is rejected.
C3_RunIffNaturalRun ==
  \A i \in Returned("is_valid_run") :
    ~HasJoker(calls[i].arg) => (calls[i].ret <=> NaturalRun(calls[i].arg))

\* witness of C3: is_valid_run has accepted a joker-free Ace-high run that was
\* handed over with the Ace not in last place
C3_Witness ==
  \E i \in Returned("is_valid_run") :
    /\ ~HasJoker(calls[i].arg) /\ calls[i].ret
    /\ \E j, k \in Positions(calls[i].arg) :
         j < k /\ calls[i].arg[j].rank = "A" /\ calls[i].arg[k].rank = "K"

\* C4: when is_valid_run_joker returns true, the cards that are no jokers are
\* of one suit and of distinct ranks, and the ranks missing between them (Ace
\* as 1 or as 14) are at most as many as the jokers of the meld.
C4_JokerRunOnlyFillsGaps ==
  \A i \in Returned("is_valid_run_joker") :
    calls[i].ret => JokersFillGaps(calls[i].arg)

\* C5: is_valid_run_joker returns true on every meld with at least one joker
\* whose other cards are of one suit and of distinct ranks with at most as
\* many ranks missing between them as there are jokers, in any input order.
C5_JokerRunAcceptsFilledGaps ==
  \A i \in Returned("is_valid_run_joker") :
    (HasJoker(calls[i].arg) /\ JokersFillGaps(calls[i].arg)) => calls[i].ret

\* C6 as claimed: on a meld with a card that is no joker, is_valid_book returns
\* true exactly when all cards that are no jokers have one rank, and giving one
\* of these cards another rank turns a true verdict into false.
C6_BookIffOneRankAndFlips ==
  \A i \in Returned("is_valid_book") :
    LET m == calls[i].arg
    IN ~AllJokers(m) =>
         /\ calls[i].ret <=> OneRank(m, NonJokerAt(m))
         /\ calls[i].ret =>
              \A k \in NonJokerAt(m) : \A r \in Ranks13 \ {m[k].rank} :
                ~is_valid_book(WithRank(m, k, r))

\* C6 as amended: as above, but the verdict flips only when the meld holds at
\* least two cards that are no jokers (a single such card next to jokers is a
\* book whatever its rank).
C6_BookIffOneRankAndFlipsOfTwo ==
  \A i \in Returned("is_valid_book") :
    LET m == calls[i].arg
    IN ~AllJokers(m) =>
         /\ calls[i].ret <=> OneRank(m, NonJokerAt(m))
         /\ (calls[i].ret /\ Cardinality(NonJokerAt(m)) >= 2) =>
              \A k \in NonJokerAt(m) : \A r \in Ranks13 \ {m[k].rank} :
                ~is_valid_book(WithRank(m, k, r))

\* witness of C6: is_valid_book has accepted a meld that starts with a joker
\* and holds two cards of one rank that are no jokers
C6_Witness ==
  \E i \in Returned("is_valid_book") :
    /\ calls[i].ret
    /\ calls[i].arg[1].isjoker
    /\ Cardinality(NonJokerAt(calls[i].arg)) >= 2

\* C7: on a meld of jokers only, is_valid_book terminates and returns true.
BookOfJokersEntered == pc = "book" /\ slice = 0 /\ AllJokers(sequence)
BookReturnedTrue == pc = "idle" /\ Len(calls) > 0 /\ LastCall.done /\ LastCall.ret
C7_BookOfJokersReturnsTrue == BookOfJokersEntered ~> BookReturnedTrue

\* C8: is_valid_book returns true only for melds whose cards have pairwise
\* different suits: two cards of one rank and one suit (jokers aside) are not
\* accepted as part of a book.
C8_BookHasDistinctSuits ==
  \A i \in Returned("is_valid_book") :
    calls[i].ret =>
      \A j, k \in NonJokerAt(calls[i].arg) :
        j # k => calls[i].arg[j].suit # calls[i].arg[k].suit

\* C9: the verdict of is_valid_run and of is_valid_run_joker does not depend on
\* the Ace value earlier calls left in RANK_VALUE: the call made with the Ace
\* at 1 or at 14 returns what the call made with the other value returns, and
\* two calls of is_valid_run in a row on one list return the same.
OtherTable(ace) == [RANK_VALUE_INIT EXCEPT !["A"] = IF ace = 1 THEN 14 ELSE 1]
C9_VerdictIgnoresStaleAce ==
  /\ \A i \in Returned("is_valid_run") :
       calls[i].ret = is_valid_run(calls[i].arg, OtherTable(calls[i].ace)).ret
  /\ \A i \in Returned("is_valid_run_joker") :
       calls[i].ret = is_valid_run_joker(calls[i].arg, OtherTable(calls[i].ace)).ret
  /\ \A i \in Returned("is_valid_run") :
       (i + 1) \in Returned("is_valid_run") => calls[i + 1].ret = calls[i].ret

\* witness of C9: is_valid_run, entered with the Ace at 14, has accepted an
\* Ace-low run, and a second call in a row has returned
C9_Witness ==
  /\ Len(calls) = 2
  /\ {1, 2} \subseteq Returned("is_valid_run")
  /\ calls[1].ace = 14 /\ calls[1].ret
  /\ \E j \in Positions(calls[1].arg) : calls[1].arg[j].rank = "2"

\* C10: after push_joker_toend the list holds the same cards, every card that
\* is no joker comes before every joker, and the cards that are no jokers are
\* in ascending order of rank value.
C10_PushPutsJokersLast ==
  (Len(calls) > 0 /\ LastCall.op = "push_joker_toend") =>
    /\ SameCards(LastCall.arg, sequence)
    /\ \A i \in NonJokerAt(sequence) : \A j \in JokerAt(sequence) : i < j
    /\ \A i, j \in NonJokerAt(sequence) :
         i < j => RANK_VALUE[sequence[i].rank] <= RANK_VALUE[sequence[j].rank]

\* the orderings of the cards of a list
Orderings(seq) ==
  {[i \in Positions(seq) |-> seq[p[i]]] : p \in Permutations(Positions(seq))}
TableWith(ace) == [RANK_VALUE_INIT EXCEPT !["A"] = ace]

\* C11: the verdict of a validator depends on the cards of the meld only: on
\* every ordering of the 3 or 4 cards is_valid_run, is_valid_run_joker and
\* is_valid_book return what they returned on the ordering they were given,
\* and is_valid_run_joker called again on the list it has just reordered
\* returns what the first call returned.
C11_VerdictIgnoresOrder ==
  /\ \A i \in Returned("is_valid_run") : \A p \in Orderings(calls[i].arg) :
       is_valid_run(p, TableWith(calls[i].ace)).ret = calls[i].ret
  /\ \A i \in Returned("is_valid_run_joker") : \A p \in Orderings(calls[i].arg) :
       is_valid_run_joker(p, TableWith(calls[i].ace)).ret = calls[i].ret
  /\ \A i \in Returned("is_valid_book") : \A p \in Orderings(calls[i].arg) :
       is_valid_book(p) = calls[i].ret
  /\ \A i \in Returned("is_valid_run_joker") :
       (i + 1) \in Returned("is_valid_run_joker") => calls[i + 1].ret = calls[i].ret

\* every hand of the game holds 13 or 14 cards
HandSizes ==
  \A p \in 1..Len(players) :
    /\ Len(players[p]) \in {13, 14}
    /\ \A k \in 1..Len(players[p]) : players[p][k] # None

\* a hand of 14 is the hand of the player at the prompt
FourteenInOwnTurn ==
  \A p \in 1..Len(players) : Len(players[p]) = 14 => (p = turn /\ pc = "play")

\* the turn passes on by a drop that takes the hand from 14 cards to 13
TurnEndsAtThirteen ==
  turn' # turn =>
    /\ Len(players[turn]) = 14
    /\ Len(players'[turn]) = 13
    /\ Len(pile') = Len(pile) + 1

\* C12: once the deal is complete, after every sequence of commands (move,
\* pick from pile, take from deck, drop, sort, close, rejected ones included)
\* every hand holds 13 or 14 cards, a hand holds 14 only during its owner's
\* turn, and a turn ends by a drop only with the hand back at 13 cards.
C12_HandsHoldThirteenOrFourteen ==
  [](HandSizes /\ FourteenInOwnTurn) /\ [][TurnEndsAtThirteen]_vars

\* witness of C12: both players have ended a turn by a drop after taking from
\* the deck, and the first player has drawn a 14th card again
C12_Witness ==
  /\ pc = "play" /\ turn = 1
  /\ Len(pile) = 3
  /\ Len(players[1]) = 14 /\ Len(players[2]) = 13

====
